---- MODULE Spec2Model ----
(***************************************************************************)
(* do-with-retry: the retry loop of doWithRetry (src/index.ts), the        *)
(* process-wide default options and the backoff functions it is given.     *)
(*                                                                         *)
(* JavaScript values are records tagged by a field t, so that any two of   *)
(* them can be compared.  An options object is a function from the names   *)
(* of its own properties to their values; a property that is not set is    *)
(* not in its domain, and a call made without options has the empty one.   *)
(***************************************************************************)
EXTENDS Integers, Sequences, FiniteSets, TLC

VARIABLES
    DFLT_OPTIONS,   \* the module-level default options object (index.ts:21)
    calls,          \* per doWithRetry call: its locals, position and event trace
    fib,            \* per fibonacciBackoff instance: <<fibPrev, fibCurr>>
    overrides,      \* the arguments of the overrideDefaultOptions calls so far
    returned,       \* what the last overrideDefaultOptions call returned
    bk              \* the backoff function a caller built, and its calls so far

vars == <<DFLT_OPTIONS, calls, fib, overrides, returned, bk>>

---------------------------------------------------------------------------
(* Bounds of the model *)

\* largest maxAttempts passed in the options of a call
MaxM == 3
\* user functions succeed or throw at an attempt in 0..MaxN
MaxN == 2
\* number of overrideDefaultOptions calls in a run
MaxOverrides == 2
\* number of calls a caller makes of one backoff function
MaxCalls == 6
\* largest attempt number a caller passes to a backoff function
MaxAttemptArg == 6
\* retries of a call that is given a built backoff function
MaxRetries == 6
\* Math.random() returns one of 0/RandRes, 1/RandRes, ..., (RandRes-1)/RandRes
RandRes == 4

---------------------------------------------------------------------------
(* Values *)

Undefined == [t |-> "undefined"]
Str(s) == [t |-> "string", s |-> s]
\* new Error(message); reading .cause of it gives undefined
Error(message) ==
    [t |-> "Error", name |-> "Error", message |-> message, cause |-> Undefined]

\* (variant: the internal marker is rethrown instead of being wrapped)
LeakedRetryError(cause) ==
    [t |-> "Error", name |-> "RetryError", message |-> <<"ATTEMPTFAILED">>,
     cause |-> cause]

\* class AttemptCountExceededError: message fixed by the constructor, the
\* cause kept as a field
AttemptCountExceededError(cause) ==
    [t |-> "Error", name |-> "AttemptCountExceededError",
     message |-> <<"Maximum attempt count exceeded">>, cause |-> cause]

\* class RetryError, the marker thrown by retry(cause)
RetryError(cause) ==
    [t |-> "Error", name |-> "RetryError", message |-> <<"ATTEMPTFAILED">>,
     cause |-> cause]

\* (variant: any Error is taken for the retry marker)
IsRetryErrorBroad(err) == err.t = "Error"

\* err instanceof RetryError
IsRetryError(err) == err.t = "Error" /\ err.name = "RetryError"

\* const retry = (cause?) => { throw new RetryError(cause) }
retry(cause) == [t |-> "throw", error |-> RetryError(cause)]

---------------------------------------------------------------------------
(* Backoff functions.  A BackoffFunction value is a record naming the      *)
(* constructor that built it and the values its closure captured.  capped  *)
(* is FALSE when maxTimeout was left at Number.MAX_SAFE_INTEGER (2^53-1),  *)
(* which no delay of the model comes near.                                 *)

Min(a, b) == IF a <= b THEN a ELSE b

\* Math.min(x, maxTimeout) of a backoff function
Cap(f, x) == IF f.capped THEN Min(x, f.maxTimeout) ELSE x

\* constantBackoff(timeout?): hasArg is FALSE for constantBackoff()
constantBackoff(hasArg, timeout) ==
    [t |-> "fn", kind |-> "constant", hasArg |-> hasArg, p |-> timeout,
     capped |-> FALSE, maxTimeout |-> 0, id |-> 0]

linearBackoff(increment, capped, maxTimeout) ==
    [t |-> "fn", kind |-> "linear", hasArg |-> TRUE, p |-> increment,
     capped |-> capped, maxTimeout |-> maxTimeout, id |-> 0]

exponentialBackoff(exponent, capped, maxTimeout) ==
    [t |-> "fn", kind |-> "exponential", hasArg |-> TRUE, p |-> exponent,
     capped |-> capped, maxTimeout |-> maxTimeout, id |-> 0]

\* fibonacciBackoff(factor, maxTimeout): id names the instance whose
\* closure variables fibPrev, fibCurr are fib[id]
fibonacciBackoff(factor, capped, maxTimeout, id) ==
    [t |-> "fn", kind |-> "fibonacci", hasArg |-> TRUE, p |-> factor,
     capped |-> capped, maxTimeout |-> maxTimeout, id |-> id]

FibIds == {1}
FibFresh == <<0, 1>>

\* the closure variables of a fibonacci instance after one more call
FibStep(pair) == <<pair[2], pair[1] + pair[2]>>

\* new RangeError(message)
RangeError(message) ==
    [t |-> "Error", name |-> "RangeError", message |-> message,
     cause |-> Undefined]

\* upwardDecayBackoff(maxTimeout, rate): throws when rate <= 1, else
\* returns the function; p is the rate
upwardDecayBackoff(maxTimeout, rate) ==
    IF rate <= 1
    THEN [t |-> "throw",
          error |-> RangeError(<<"backoffRate must be greater than 1">>)]
    ELSE [t |-> "fn", kind |-> "upwardDecay", hasArg |-> TRUE, p |-> rate,
          capped |-> FALSE, maxTimeout |-> maxTimeout, id |-> 0]

\* (variant: only maxTimeout < minTimeout is refused)
randomBackoffLax(minTimeout, maxTimeout) ==
    IF maxTimeout < minTimeout
    THEN [t |-> "throw",
          error |-> RangeError(<<"minTimeout must be less than maxTimeout">>)]
    ELSE [t |-> "fn", kind |-> "random", hasArg |-> TRUE, p |-> minTimeout,
          capped |-> FALSE, maxTimeout |-> maxTimeout, id |-> 0]

\* randomBackoff(minTimeout, maxTimeout): throws when maxTimeout <=
\* minTimeout, else returns the function; p is minTimeout
randomBackoff(minTimeout, maxTimeout) ==
    IF maxTimeout <= minTimeout
    THEN [t |-> "throw",
          error |-> RangeError(<<"minTimeout must be less than maxTimeout">>)]
    ELSE [t |-> "fn", kind |-> "random", hasArg |-> TRUE, p |-> minTimeout,
          capped |-> FALSE, maxTimeout |-> maxTimeout, id |-> 0]

\* Math.pow(b, e) for an integer e >= 0
RECURSIVE Pow(_, _)
Pow(b, e) == IF e = 0 THEN 1 ELSE b * Pow(b, e - 1)

\* (variant: Math.floor)
RoundDown(num, den) == num \div den

\* Math.round of the fraction num/den, den > 0: the nearest integer, a half
\* going up
Round(num, den) == (2 * num + den) \div (2 * den)

\* (variant: timeout || curTimeout, which takes 0 for "not given")
ConstantCallFalsy(f, curTimeout) ==
    IF f.hasArg /\ f.p # 0 THEN f.p ELSE curTimeout

\* timeout ?? curTimeout
ConstantCall(f, curTimeout) == IF f.hasArg THEN f.p ELSE curTimeout

\* (variant: the increment is added on the first retry too)
LinearCallFromFirst(f, curTimeout, attempt) == Cap(f, curTimeout + f.p)

\* attempt === 1 ? curTimeout : Math.min(curTimeout + increment, maxTimeout)
LinearCall(f, curTimeout, attempt) ==
    IF attempt = 1 THEN curTimeout ELSE Cap(f, curTimeout + f.p)

\* (variant: the timeout is multiplied on the first retry too)
ExponentialCallFromFirst(f, curTimeout, attempt) == Cap(f, curTimeout * f.p)

\* attempt === 1 ? curTimeout : Math.min(curTimeout * exponent, maxTimeout)
ExponentialCall(f, curTimeout, attempt) ==
    IF attempt = 1 THEN curTimeout ELSE Cap(f, curTimeout * f.p)

\* Math.round(maxTimeout * (1 - (1 / Math.pow(rate, attempt)))), the
\* argument of Math.round being the fraction maxTimeout * (r - 1) / r for
\* r = rate^attempt
UpwardDecayCall(f, attempt) ==
    LET r == Pow(f.p, attempt) IN Round(f.maxTimeout * (r - 1), r)

\* (variant: the number returned is the one before the step)
FibonacciCallStale(f, pair) == Cap(f, f.p * pair[2])

\* Math.min(factor * fibCurr, maxTimeout), fibCurr being the stepped one
FibonacciCall(f, pair) == Cap(f, f.p * FibStep(pair)[2])

\* (variant: Math.ceil instead of Math.floor)
RandomCallCeil(f, u) ==
    f.p + ((u * (f.maxTimeout - f.p) + RandRes - 1) \div RandRes)

\* minTimeout + Math.floor(Math.random() * (maxTimeout - minTimeout)), for
\* Math.random() = u / RandRes
RandomCall(f, u) == f.p + ((u * (f.maxTimeout - f.p)) \div RandRes)

\* the value a backoff function returns for (curTimeout, attempt), given
\* the closure state fibs as it is before the call
CallBackoff(f, curTimeout, attempt, fibs) ==
    CASE f.kind = "constant" -> ConstantCall(f, curTimeout)
      [] f.kind = "linear" -> LinearCall(f, curTimeout, attempt)
      [] f.kind = "exponential" -> ExponentialCall(f, curTimeout, attempt)
      [] f.kind = "upwardDecay" -> UpwardDecayCall(f, attempt)
      [] f.kind = "fibonacci" -> FibonacciCall(f, fibs[f.id])

\* the same for any function, u being what Math.random() gives if called
CallBackoffRandom(f, curTimeout, attempt, fibs, u) ==
    IF f.kind = "random" THEN RandomCall(f, u)
    ELSE CallBackoff(f, curTimeout, attempt, fibs)

\* (variant: the call leaves the closure variables as they were)
FibAfterForgets(f, fibs) == fibs

\* the closure state after that call
FibAfter(f, fibs) ==
    IF f.kind = "fibonacci"
    THEN [fibs EXCEPT ![f.id] = FibStep(@)]
    ELSE fibs

---------------------------------------------------------------------------
(* Options objects *)

Fields == {"maxAttempts", "initTimeout", "getNextTimeout", "onFail", "onSuccess"}

NoOptions == [f \in {} |-> Undefined]

\* (variant: the initial timeout of the option's doc comment)
ShippedDefaultsDocComment ==
    [maxAttempts |-> 10, initTimeout |-> 1000,
     getNextTimeout |-> exponentialBackoff(2, FALSE, 0)]

\* let DFLT_OPTIONS = { maxAttempts: 10, initTimeout: 100,
\*                      getNextTimeout: exponentialBackoff() }
ShippedDefaults ==
    [maxAttempts |-> 10, initTimeout |-> 100,
     getNextTimeout |-> exponentialBackoff(2, FALSE, 0)]

\* (variant: the arguments are swapped, so that what is already set wins)
ObjectAssignSwapped(target, source) ==
    [f \in (DOMAIN target) \cup (DOMAIN source) |->
        IF f \in DOMAIN target THEN target[f] ELSE source[f]]

\* Object.assign(target, source): the own properties of source are copied
\* over target, the others of target stay
ObjectAssign(target, source) ==
    [f \in (DOMAIN target) \cup (DOMAIN source) |->
        IF f \in DOMAIN source THEN source[f] ELSE target[f]]

\* options?.f : Undefined when the property is not set
Has(options, f) == f \in DOMAIN options

\* options?.f ?? DFLT_OPTIONS.f!   (index.ts:72-74)
Resolve(options, dflt, f) ==
    IF Has(options, f) THEN options[f] ELSE dflt[f]

\* if (options?.onFail) / if (options?.onSuccess): the observers the loop
\* calls, read from the options of the call; <<>> when there is none
ObserverOf(options, f) ==
    IF Has(options, f) THEN <<options[f]>> ELSE <<>>

\* An observer callback: a name, and whether it raises when called
Observer(name, raises) == [t |-> "fn", name |-> name, raises |-> raises]
ObserverError(name) == Error(<<"raised by observer", name>>)

---------------------------------------------------------------------------
(* User functions, as the tests write them: retry (with or without a       *)
(* cause) on every attempt but attempt n, where the function returns       *)
(* "completed" (succeedAt) or throws Error("Test Error") (throwAt);        *)
(* alwaysFail retries on every attempt.  A swallow function calls retry    *)
(* inside a try block of its own on every attempt, catches what retry      *)
(* throws and returns "swallowed".                                         *)

UserFn(kind, n, withCause) == [kind |-> kind, n |-> n, withCause |-> withCause]

\* the argument the user function gives retry on this attempt
CauseOf(fn, attempt) ==
    IF fn.withCause THEN Error(<<"Failed on attempt", attempt>>) ELSE Undefined

\* userFn(retry, attempt): what the call (awaited) ends with
UserFnResult(fn, attempt) ==
    IF fn.kind = "swallow"
    THEN [t |-> "return", value |-> Str("swallowed")]
    ELSE IF fn.kind = "alwaysFail" \/ attempt # fn.n
    THEN retry(CauseOf(fn, attempt))
    ELSE IF fn.kind = "succeedAt"
         THEN [t |-> "return", value |-> Str("completed")]
         ELSE [t |-> "throw", error |-> Error(<<"Test Error">>)]

\* the user function calls retry on this attempt
CallsRetry(fn, attempt) ==
    fn.kind \in {"alwaysFail", "swallow"} \/ attempt # fn.n

UserFns ==
    {UserFn("alwaysFail", 0, w) : w \in BOOLEAN}
    \cup {UserFn("swallow", 0, TRUE)}
    \cup {UserFn(k, n, w) : k \in {"succeedAt", "throwAt"}, n \in 0..MaxN,
                            w \in BOOLEAN}

---------------------------------------------------------------------------
(* The options a call is given, and the arguments of the overrides *)

OnFailOpt == Observer("options.onFail", FALSE)
OnFailOptRaising == Observer("options.onFail", TRUE)
OnSuccessOpt == Observer("options.onSuccess", FALSE)
OnSuccessOptRaising == Observer("options.onSuccess", TRUE)
OnFailDflt == Observer("defaults.onFail", FALSE)
OnSuccessDflt == Observer("defaults.onSuccess", FALSE)

CallOptions ==
    {a @@ b @@ c @@ d @@ e :
        a \in {NoOptions} \cup {[maxAttempts |-> m] : m \in 1..MaxM},
        b \in {NoOptions, [initTimeout |-> 5]},
        c \in {NoOptions, [getNextTimeout |-> constantBackoff(TRUE, 7)]},
        d \in {NoOptions, [onFail |-> OnFailOpt], [onFail |-> OnFailOptRaising]},
        e \in {NoOptions, [onSuccess |-> OnSuccessOpt],
               [onSuccess |-> OnSuccessOptRaising]}}

\* the override of the tests (initTimeout and getNextTimeout), and one of
\* the other three fields
OverrideOptions ==
    {[initTimeout |-> 1, getNextTimeout |-> linearBackoff(1, FALSE, 0)],
     [maxAttempts |-> 2, onFail |-> OnFailDflt, onSuccess |-> OnSuccessDflt]}

---------------------------------------------------------------------------
(* The state of one doWithRetry call *)

Calls == {1}

IdleCall ==
    [pc |-> "idle", userFn |-> Undefined, options |-> NoOptions,
     timeout |-> 0, maxAttempts |-> 0, getNextTimeout |-> Undefined,
     attempt |-> 0, settled |-> <<>>, trace |-> <<>>,
     startDefaults |-> NoOptions, overridden |-> FALSE]

Finished(k) == k.pc \in {"resolved", "rejected"}
InFlight(k) == k.pc \in {"running", "sleeping"}

\* let attempt = 0
FirstAttempt == 0

\* the promise of the call settles: return result / throw err
Resolved(k, value) ==
    [k EXCEPT !.pc = "resolved",
              !.settled = Append(@, [t |-> "resolve", value |-> value])]
Rejected(k, error) ==
    [k EXCEPT !.pc = "rejected",
              !.settled = Append(@, [t |-> "reject", error |-> error])]

Logged(k, event) == [k EXCEPT !.trace = Append(@, event)]

\* (variant: a while loop, the attempt count is compared with maxAttempts
\* before the first invocation)
BeginChecked(userFn, options, dflt) ==
    LET k == [pc |-> "running", userFn |-> userFn, options |-> options,
              timeout |-> Resolve(options, dflt, "initTimeout"),
              maxAttempts |-> Resolve(options, dflt, "maxAttempts"),
              getNextTimeout |-> Resolve(options, dflt, "getNextTimeout"),
              attempt |-> FirstAttempt, settled |-> <<>>, trace |-> <<>>,
              startDefaults |-> dflt, overridden |-> FALSE]
    IN  IF FirstAttempt < k.maxAttempts
        THEN Logged(k, [e |-> "invoke", attempt |-> FirstAttempt])
        ELSE Rejected(k, AttemptCountExceededError(Undefined))

\* (variant: the initial timeout is slept before the first attempt)
BeginAfterWait(userFn, options, dflt) ==
    [pc |-> "running", userFn |-> userFn, options |-> options,
     timeout |-> Resolve(options, dflt, "initTimeout"),
     maxAttempts |-> Resolve(options, dflt, "maxAttempts"),
     getNextTimeout |-> Resolve(options, dflt, "getNextTimeout"),
     attempt |-> FirstAttempt, settled |-> <<>>,
     trace |-> <<[e |-> "sleep", ms |-> Resolve(options, dflt, "initTimeout")],
                 [e |-> "invoke", attempt |-> FirstAttempt]>>,
     startDefaults |-> dflt, overridden |-> FALSE]

\* doWithRetry up to its first await: the three locals are resolved
\* against the defaults as they are now, attempt starts at 0 and the user
\* function is invoked
Begin(userFn, options, dflt) ==
    [pc |-> "running", userFn |-> userFn, options |-> options,
     timeout |-> Resolve(options, dflt, "initTimeout"),
     maxAttempts |-> Resolve(options, dflt, "maxAttempts"),
     getNextTimeout |-> Resolve(options, dflt, "getNextTimeout"),
     attempt |-> FirstAttempt, settled |-> <<>>,
     trace |-> <<[e |-> "invoke", attempt |-> FirstAttempt]>>,
     startDefaults |-> dflt, overridden |-> FALSE]

\* (variant: one attempt counter for all the calls of the program)
NextAttemptShared(attempt) ==
    LET all == {calls[c].attempt : c \in DOMAIN calls} \cup {attempt}
    IN  1 + CHOOSE a \in all : \A b \in all : b <= a

\* (variant: the attempt is incremented twice)
NextAttemptTwice(attempt) == attempt + 2

\* ++attempt
NextAttempt(attempt) == attempt + 1

\* (variant: the loop reads the defaults again on every iteration)
LoopMaxAttemptsLive(k) == Resolve(k.options, DFLT_OPTIONS, "maxAttempts")

\* the maxAttempts the loop compares with: the const read when the call began
LoopMaxAttempts(k) == k.maxAttempts

\* (variant: a retry is granted whatever the attempt count)
RetryGrantedAlways(attempt, maxAttempts) == TRUE

\* (variant: <= instead of <)
RetryGrantedOffByOne(attempt, maxAttempts) == attempt <= maxAttempts

\* ++attempt < maxAttempts, on the incremented attempt
RetryGranted(attempt, maxAttempts) == attempt < maxAttempts

\* (variant: the observer is given the attempt after the increment)
OnFailCalledAfterIncrement(k, error) ==
    LET obs == ObserverOf(k.options, "onFail") IN
    IF obs = <<>> THEN k
    ELSE Logged(k, [e |-> "onFail", fn |-> obs[1].name, error |-> error,
                    attempt |-> k.attempt + 1])

\* options.onFail(error, attempt), when the options have one: the call is
\* logged in the trace
OnFailCalled(k, error) ==
    LET obs == ObserverOf(k.options, "onFail") IN
    IF obs = <<>> THEN k
    ELSE Logged(k, [e |-> "onFail", fn |-> obs[1].name, error |-> error,
                    attempt |-> k.attempt])
OnFailRaises(k) ==
    LET obs == ObserverOf(k.options, "onFail") IN
    obs # <<>> /\ obs[1].raises

\* (variant: the next timeout is computed and slept before the attempt
\* count is looked at)
AfterRetryErrorEager(k, cause, fibs) ==
    LET k2 == [k EXCEPT !.attempt = NextAttempt(@)]
        next == CallBackoff(k2.getNextTimeout, k2.timeout, k2.attempt, fibs)
        k3 == Logged(k2, [e |-> "backoff", curTimeout |-> k2.timeout,
                          attempt |-> k2.attempt, next |-> next])
        k4 == [Logged(k3, [e |-> "sleep", ms |-> next]) EXCEPT !.timeout = next]
    IN  IF RetryGranted(k2.attempt, LoopMaxAttempts(k2))
        THEN [k4 EXCEPT !.pc = "sleeping"]
        ELSE Rejected(k4, AttemptCountExceededError(cause))

\* (variant: the timeout local is not assigned, every backoff call is given
\* the initial timeout)
AfterRetryErrorStaleTimeout(k, cause, fibs) ==
    LET k2 == [k EXCEPT !.attempt = NextAttempt(@)] IN
    IF RetryGranted(k2.attempt, LoopMaxAttempts(k2))
    THEN LET next == CallBackoff(k2.getNextTimeout, k2.timeout, k2.attempt, fibs)
             k3 == Logged(k2, [e |-> "backoff", curTimeout |-> k2.timeout,
                               attempt |-> k2.attempt, next |-> next])
         IN  [Logged(k3, [e |-> "sleep", ms |-> next]) EXCEPT !.pc = "sleeping"]
    ELSE Rejected(k2, AttemptCountExceededError(cause))

\* index.ts:91-99, for a RetryError with this cause: the attempt is
\* incremented; when a retry is granted the next timeout is computed and
\* slept, otherwise the call ends with AttemptCountExceededError
AfterRetryError(k, cause, fibs) ==
    LET k2 == [k EXCEPT !.attempt = NextAttempt(@)] IN
    IF RetryGranted(k2.attempt, LoopMaxAttempts(k2))
    THEN LET next == CallBackoff(k2.getNextTimeout, k2.timeout, k2.attempt, fibs)
             k3 == Logged(k2, [e |-> "backoff", curTimeout |-> k2.timeout,
                               attempt |-> k2.attempt, next |-> next])
         IN  [Logged(k3, [e |-> "sleep", ms |-> next])
                 EXCEPT !.timeout = next, !.pc = "sleeping"]
    ELSE Rejected(k2, AttemptCountExceededError(cause))

\* (variant: what the failure observer raises is swallowed and the catch
\* block goes on)
CatchObserverGuarded(k, err, fibs) ==
    LET k1 == OnFailCalled(k, IF IsRetryError(err) THEN err.cause ELSE err) IN
    IF IsRetryError(err)
    THEN AfterRetryError(k1, err.cause, fibs)
    ELSE Rejected(k1, err)

\* the catch block (index.ts:85-108) for the error err
Catch(k, err, fibs) ==
    LET k1 == OnFailCalled(k, IF IsRetryError(err) THEN err.cause ELSE err) IN
    IF OnFailRaises(k)
    THEN Rejected(k1, ObserverError("options.onFail"))
    ELSE IF IsRetryError(err)
         THEN AfterRetryError(k1, err.cause, fibs)
         ELSE Rejected(k1, err)

\* whether the catch block calls getNextTimeout for err
CatchCallsBackoff(k, err) ==
    /\ IsRetryError(err)
    /\ ~OnFailRaises(k)
    /\ RetryGranted(NextAttempt(k.attempt), LoopMaxAttempts(k))

\* (variant: the success observer is called after the try block, what it
\* raises does not reach the catch block)
SettleObserverOutsideTry(k, res, fibs) ==
    IF res.t = "return"
    THEN LET obs == ObserverOf(k.options, "onSuccess") IN
         IF obs = <<>>
         THEN Resolved(k, res.value)
         ELSE LET k1 == Logged(k, [e |-> "onSuccess", fn |-> obs[1].name,
                                   result |-> res.value, attempt |-> k.attempt])
              IN  IF obs[1].raises
                  THEN Rejected(k1, ObserverError("options.onSuccess"))
                  ELSE Resolved(k1, res.value)
    ELSE Catch(k, res.error, fibs)

\* the try block (index.ts:78-84) once the awaited user function has
\* ended with res, then the catch block for what the try block threw
Settle(k, res, fibs) ==
    IF res.t = "return"
    THEN LET obs == ObserverOf(k.options, "onSuccess") IN
         IF obs = <<>>
         THEN Resolved(k, res.value)
         ELSE LET k1 == Logged(k, [e |-> "onSuccess", fn |-> obs[1].name,
                                   result |-> res.value, attempt |-> k.attempt])
              IN  IF obs[1].raises
                  THEN Catch(k1, ObserverError("options.onSuccess"), fibs)
                  ELSE Resolved(k1, res.value)
    ELSE Catch(k, res.error, fibs)

---------------------------------------------------------------------------
(* Backoff functions built by the caller: a constructor call is the name  *)
(* of the constructor and the arguments written, the parameters left out  *)
(* taking their default values.                                           *)

\* exponent = 2, rate = 2, factor = 1000
DefaultExponent == 2
DefaultRate == 2
DefaultFactor == 1000

Ctor(kind, args) == [kind |-> kind, args |-> args]

\* the constructor calls of the tests and of the readme, and some with
\* small or refused arguments
Ctors ==
    {Ctor("constant", a) : a \in {<<>>, <<0>>, <<100>>}}
    \cup {Ctor("linear", a) : a \in {<<10>>, <<100>>, <<100, 350>>, <<1, 3>>}}
    \cup {Ctor("exponential", a) : a \in {<<>>, <<3>>, <<10, 12000>>, <<2, 3>>}}
    \cup {Ctor("upwardDecay", a) :
            a \in {<<1000>>, <<1000, 3>>, <<10, 2>>, <<1000, 1>>, <<1000, 0>>}}
    \cup {Ctor("fibonacci", a) : a \in {<<>>, <<10, 80>>, <<1000, 8000>>}}
    \cup {Ctor("random", a) :
            a \in {<<1000, 3000>>, <<0, 3>>, <<3, 1>>, <<5, 5>>}}

\* the i-th argument of a constructor call, dflt when it is not written
Arg(ctor, i, dflt) == IF Len(ctor.args) >= i THEN ctor.args[i] ELSE dflt

\* what the constructor call evaluates to: a backoff function, or the
\* error the constructor throws
Build(ctor) ==
    CASE ctor.kind = "constant" ->
            constantBackoff(Len(ctor.args) >= 1, Arg(ctor, 1, 0))
      [] ctor.kind = "linear" ->
            linearBackoff(ctor.args[1], Len(ctor.args) >= 2, Arg(ctor, 2, 0))
      [] ctor.kind = "exponential" ->
            exponentialBackoff(Arg(ctor, 1, DefaultExponent),
                               Len(ctor.args) >= 2, Arg(ctor, 2, 0))
      [] ctor.kind = "upwardDecay" ->
            upwardDecayBackoff(ctor.args[1], Arg(ctor, 2, DefaultRate))
      [] ctor.kind = "fibonacci" ->
            fibonacciBackoff(Arg(ctor, 1, DefaultFactor),
                             Len(ctor.args) >= 2, Arg(ctor, 2, 0), 1)
      [] ctor.kind = "random" ->
            randomBackoff(ctor.args[1], ctor.args[2])

\* nothing built yet
NoBk ==
    [pc |-> "none", ctor |-> Ctor("none", <<>>), built |-> Undefined,
     n |-> 0, last |-> <<>>]

\* the curTimeout arguments a caller passes to a backoff function, and the
\* initTimeout of a call that is given one
CurTimeouts == {0, 5, 100, 200}
InitTimeouts == {0, 5, 100, 1000}

---------------------------------------------------------------------------
(* Actions *)

Init ==
    /\ DFLT_OPTIONS = ShippedDefaults
    /\ calls = [c \in Calls |-> IdleCall]
    /\ fib = [i \in FibIds |-> FibFresh]
    /\ overrides = <<>>
    /\ returned = Undefined
    /\ bk = NoBk

\* doWithRetry(userFn, options) is called, with any user function and any
\* options
Start(c) ==
    /\ calls[c].pc = "idle"
    /\ \E userFn \in UserFns, options \in CallOptions :
          calls' = [calls EXCEPT ![c] = Begin(userFn, options, DFLT_OPTIONS)]
    /\ UNCHANGED <<DFLT_OPTIONS, fib, overrides, returned, bk>>

\* the awaited user function ends and the loop body runs to its next await
\* or to the end of the call
Complete(c) ==
    LET k == calls[c]
        res == UserFnResult(k.userFn, k.attempt)
    IN  /\ k.pc = "running"
        /\ calls' = [calls EXCEPT ![c] = Settle(k, res, fib)]
        /\ fib' = IF res.t = "throw" /\ CatchCallsBackoff(k, res.error)
                  THEN FibAfter(k.getNextTimeout, fib)
                  ELSE fib
        /\ UNCHANGED <<DFLT_OPTIONS, overrides, returned, bk>>

\* sleep(timeout) ends: the loop invokes the user function again
Wake(c) ==
    /\ calls[c].pc = "sleeping"
    /\ calls' = [calls EXCEPT ![c] =
                    [Logged(@, [e |-> "invoke", attempt |-> @.attempt])
                        EXCEPT !.pc = "running"]]
    /\ UNCHANGED <<DFLT_OPTIONS, fib, overrides, returned, bk>>

\* the caller's await of a settled call ends; the caller goes on, and may
\* call doWithRetry again
Return(c) ==
    /\ Finished(calls[c])
    /\ calls' = [calls EXCEPT ![c] = IdleCall]
    /\ UNCHANGED <<DFLT_OPTIONS, fib, overrides, returned, bk>>

\* overrideDefaultOptions(options)
overrideDefaultOptions(options) ==
    /\ Len(overrides) < MaxOverrides
    /\ DFLT_OPTIONS' = ObjectAssign(DFLT_OPTIONS, options)
    /\ returned' = DFLT_OPTIONS'
    /\ overrides' = Append(overrides, options)
    /\ calls' = [c \in Calls |->
                    IF InFlight(calls[c])
                    THEN [calls[c] EXCEPT !.overridden = TRUE]
                    ELSE calls[c]]
    /\ UNCHANGED <<fib, bk>>

Next ==
    \/ \E c \in Calls : Start(c)
    \/ \E c \in Calls : Complete(c)
    \/ \E c \in Calls : Wake(c)
    \/ \E c \in Calls : Return(c)
    \/ \E options \in OverrideOptions : overrideDefaultOptions(options)

Spec == Init /\ [][Next]_vars

\* const fn = linearBackoff(10) and the like: the constructor call is
\* evaluated; a fibonacci function starts with a closure of its own
Construct(ctor) ==
    /\ bk.pc = "none"
    /\ \A c \in Calls : calls[c].pc = "idle"
    /\ bk' = [pc |-> IF Build(ctor).t = "fn" THEN "built" ELSE "failed",
              ctor |-> ctor, built |-> Build(ctor), n |-> 0, last |-> <<>>]
    /\ fib' = IF ctor.kind = "fibonacci"
              THEN [fib EXCEPT ![1] = FibFresh]
              ELSE fib
    /\ UNCHANGED <<DFLT_OPTIONS, calls, overrides, returned>>

\* fn(curTimeout, attempt): the caller calls the function it built, with
\* any arguments; u is what Math.random() returns in a random function
CallFn ==
    /\ bk.pc = "built"
    /\ bk.n < MaxCalls
    /\ \E curTimeout \in CurTimeouts, attempt \in 1..MaxAttemptArg,
          u \in 0..(RandRes - 1) :
          /\ (u = 0 \/ bk.built.kind = "random")
          /\ bk' = [bk EXCEPT
                      !.n = @ + 1,
                      !.last = <<[curTimeout |-> curTimeout,
                                  attempt |-> attempt, u |-> u,
                                  out |-> CallBackoffRandom(bk.built, curTimeout,
                                                            attempt, fib, u)]>>]
    /\ fib' = FibAfter(bk.built, fib)
    /\ UNCHANGED <<DFLT_OPTIONS, calls, overrides, returned>>

\* doWithRetry(userFn, { maxAttempts, initTimeout, getNextTimeout: fn })
\* with the function built, for a user function that always retries
StartWith(c) ==
    /\ bk.pc = "built"
    /\ bk.n = 0
    /\ bk.built.kind # "random"
    /\ calls[c].pc = "idle"
    /\ \E initTimeout \in InitTimeouts :
          calls' = [calls EXCEPT ![c] =
                      Begin(UserFn("alwaysFail", 0, FALSE),
                            [maxAttempts |-> MaxRetries + 1,
                             initTimeout |-> initTimeout,
                             getNextTimeout |-> bk.built],
                            DFLT_OPTIONS)]
    /\ bk' = [bk EXCEPT !.pc = "given"]
    /\ UNCHANGED <<DFLT_OPTIONS, fib, overrides, returned>>

\* the caller is done with the function and with the call it was given to
Discard ==
    /\ bk.pc # "none"
    /\ \A c \in Calls : ~InFlight(calls[c])
    /\ bk' = NoBk
    /\ calls' = [c \in Calls |-> IdleCall]
    /\ fib' = [i \in FibIds |-> FibFresh]
    /\ UNCHANGED <<DFLT_OPTIONS, overrides, returned>>

NextBackoff ==
    \/ \E ctor \in Ctors : Construct(ctor)
    \/ CallFn
    \/ \E c \in Calls : StartWith(c)
    \/ \E c \in Calls : Complete(c)
    \/ \E c \in Calls : Wake(c)
    \/ Discard

SpecBackoff == Init /\ [][NextBackoff]_vars

---------------------------------------------------------------------------
(* Two doWithRetry calls of one program, in flight at the same time or     *)
(* one after the other, with no overrideDefaultOptions call.  The caller   *)
(* has built two fibonacci functions and may give either of them to        *)
(* either call.                                                            *)

Slots == {1, 2}
Instances == {1, 2}

\* const fibN = fibonacciBackoff(): the N-th function the caller built
FibonacciInstance(i) == fibonacciBackoff(DefaultFactor, FALSE, 0, i)

ConcurrentUserFns ==
    {UserFn("alwaysFail", 0, FALSE)}
    \cup {UserFn(k, n, TRUE) : k \in {"succeedAt", "throwAt"}, n \in 0..1}

\* maxAttempts is any number, zero and negative ones included; the backoff
\* function is the default, a stateless one or one of the two fibonacci
\* functions
ConcurrentOptions ==
    {a @@ b :
        a \in {[maxAttempts |-> m] : m \in {-1, 0} \cup 1..MaxM},
        b \in {NoOptions, [getNextTimeout |-> linearBackoff(1, FALSE, 0)]}
              \cup {[getNextTimeout |-> FibonacciInstance(i)] : i \in Instances}}

InitConcurrent ==
    /\ DFLT_OPTIONS = ShippedDefaults
    /\ calls = [c \in Slots |-> IdleCall]
    /\ fib = [i \in Instances |-> FibFresh]
    /\ overrides = <<>>
    /\ returned = Undefined
    /\ bk = NoBk

\* doWithRetry(userFn, options) is called; the other call may be in flight
StartConcurrent(c) ==
    /\ calls[c].pc = "idle"
    /\ \E userFn \in ConcurrentUserFns, options \in ConcurrentOptions :
          calls' = [calls EXCEPT ![c] = Begin(userFn, options, DFLT_OPTIONS)]
    /\ UNCHANGED <<DFLT_OPTIONS, fib, overrides, returned, bk>>

NextConcurrent ==
    \/ \E c \in Slots : StartConcurrent(c)
    \/ \E c \in Slots : Complete(c)
    \/ \E c \in Slots : Wake(c)

SpecConcurrent == InitConcurrent /\ [][NextConcurrent]_vars

\* every invocation of the user function completes and every wait elapses
SpecConcurrentFair ==
    /\ SpecConcurrent
    /\ \A c \in Slots : WF_vars(Complete(c)) /\ WF_vars(Wake(c))

---------------------------------------------------------------------------

(* What the claims are stated with *)

Started(k) == k.pc # "idle"

\* the events of one kind in the trace of a call, in order
Ev(k, e) == SelectSeq(k.trace, LAMBDA x : x.e = e)

\* the attempt numbers the user function was invoked with, in order
AttemptsSeen(k) == [i \in 1..Len(Ev(k, "invoke")) |-> Ev(k, "invoke")[i].attempt]

\* the user function calls retry on this attempt
Signals(fn, attempt) ==
    LET res == UserFnResult(fn, attempt) IN
    res.t = "throw" /\ res.error.name = "RetryError"

\* neither observer of the call raises
ObserversReturn(k) ==
    \A f \in {"onFail", "onSuccess"} : Has(k.options, f) => ~k.options[f].raises

ExceededWith(cause) ==
    [t |-> "reject",
     error |-> [t |-> "Error", name |-> "AttemptCountExceededError",
                message |-> <<"Maximum attempt count exceeded">>,
                cause |-> cause]]

TestError ==
    [t |-> "Error", name |-> "Error", message |-> <<"Test Error">>,
     cause |-> Undefined]

---------------------------------------------------------------------------
\* C1: with maxAttempts M >= 1 and a user function that signals failure on
\* every attempt (the failure observer, if any, returning normally), the
\* user function is never invoked more than M times, and the call ends only
\* after exactly M invocations, rejected with AttemptCountExceededError
\* ("Maximum attempt count exceeded") whose cause is the cause given to
\* retry on attempt M-1.
C1_Exhaustion ==
    \A c \in Calls :
        LET k == calls[c]
            M == k.maxAttempts
        IN  (/\ Started(k)
             /\ M >= 1
             /\ \A a \in 0..(M - 1) : Signals(k.userFn, a)
             /\ ~OnFailRaises(k))
            => /\ Len(Ev(k, "invoke")) <= M
               /\ Finished(k) =>
                    /\ Len(Ev(k, "invoke")) = M
                    /\ k.settled = <<ExceededWith(CauseOf(k.userFn, M - 1))>>

C1_Witness ==
    \E c \in Calls :
        LET k == calls[c] IN
        /\ Finished(k)
        /\ k.userFn.kind = "alwaysFail" /\ k.userFn.withCause
        /\ k.maxAttempts = 3
        /\ Len(Ev(k, "invoke")) = 3
        /\ k.settled[1].error.name = "AttemptCountExceededError"
        /\ k.settled[1].error.cause.message = <<"Failed on attempt", 2>>

\* C2: a user function that signals failure on attempts 0..N-2 and returns
\* a value on attempt N-1, N <= maxAttempts (observers returning normally):
\* the call resolves with that value, the attempts seen are 0,1,...,N-1,
\* nothing happens after the N-th invocation but the one call of the
\* success observer, with (value, N-1).
C2_SuccessAfterRetries ==
    \A c \in Calls :
        LET k == calls[c]
            N == k.userFn.n + 1
            last == Len(k.trace)
        IN  (/\ Finished(k)
             /\ k.userFn.kind = "succeedAt"
             /\ N <= k.maxAttempts
             /\ ObserversReturn(k))
            => /\ k.settled = <<[t |-> "resolve", value |-> Str("completed")]>>
               /\ AttemptsSeen(k) = [i \in 1..N |-> i - 1]
               /\ IF Has(k.options, "onSuccess")
                  THEN /\ Ev(k, "onSuccess")
                            = <<[e |-> "onSuccess", fn |-> k.options.onSuccess.name,
                                 result |-> Str("completed"), attempt |-> N - 1]>>
                       /\ k.trace[last].e = "onSuccess"
                       /\ k.trace[last - 1] = [e |-> "invoke", attempt |-> N - 1]
                  ELSE /\ Ev(k, "onSuccess") = <<>>
                       /\ k.trace[last] = [e |-> "invoke", attempt |-> N - 1]

C2_Witness ==
    \E c \in Calls :
        LET k == calls[c] IN
        /\ k.pc = "resolved"
        /\ k.userFn.kind = "succeedAt" /\ k.userFn.n = 2
        /\ Has(k.options, "onSuccess")
        /\ Len(Ev(k, "invoke")) = 3
        /\ Len(Ev(k, "onSuccess")) = 1

\* C3: a user function that throws an error of its own on attempt n (having
\* signalled failure before; the failure observer returning normally): the
\* failure observer, if any, is called with (error, n), there is no backoff
\* call and no wait after that invocation, the user function is invoked n+1
\* times in all, and the call is rejected with the very error.
C3_UnrelatedError ==
    \A c \in Calls :
        LET k == calls[c]
            n == k.userFn.n
            last == Len(k.trace)
        IN  (/\ Finished(k)
             /\ k.userFn.kind = "throwAt"
             /\ n < k.maxAttempts
             /\ ~OnFailRaises(k))
            => /\ k.settled = <<[t |-> "reject", error |-> TestError]>>
               /\ AttemptsSeen(k) = [i \in 1..(n + 1) |-> i - 1]
               /\ Len(Ev(k, "backoff")) = n
               /\ Len(Ev(k, "sleep")) = n
               /\ IF Has(k.options, "onFail")
                  THEN /\ k.trace[last]
                            = [e |-> "onFail", fn |-> k.options.onFail.name,
                               error |-> TestError, attempt |-> n]
                       /\ k.trace[last - 1] = [e |-> "invoke", attempt |-> n]
                  ELSE k.trace[last] = [e |-> "invoke", attempt |-> n]

C3_Witness ==
    \E c \in Calls :
        LET k == calls[c] IN
        /\ k.pc = "rejected"
        /\ k.userFn.kind = "throwAt" /\ k.userFn.n = 1
        /\ k.maxAttempts = 3
        /\ Has(k.options, "onFail")
        /\ k.settled[1].error = TestError
        /\ Len(Ev(k, "invoke")) = 2

\* C4: a call is settled at most once, and is settled exactly when it has
\* ended; with observers that return normally the settlement is decided by
\* what the last invocation of the user function ended with: its return
\* value, the error it threw (the same value), or, when it signalled
\* failure, AttemptCountExceededError wrapping the cause it signalled.
C4_OneResolution ==
    \A c \in Calls :
        LET k == calls[c]
            inv == Ev(k, "invoke")
            res == UserFnResult(k.userFn, inv[Len(inv)].attempt)
        IN  /\ Len(k.settled) <= 1
            /\ Finished(k) <=> Len(k.settled) = 1
            /\ (Finished(k) /\ ObserversReturn(k)) =>
                  k.settled[1] =
                     IF res.t = "return"
                     THEN [t |-> "resolve", value |-> res.value]
                     ELSE IF res.error.name = "RetryError"
                          THEN ExceededWith(res.error.cause)
                          ELSE [t |-> "reject", error |-> res.error]

C4_Witness ==
    \E c \in Calls :
        LET k == calls[c] IN
        /\ k.pc = "rejected"
        /\ k.userFn.kind = "succeedAt" /\ k.userFn.n = 2 /\ k.userFn.withCause
        /\ k.maxAttempts = 2
        /\ Len(k.settled) = 1
        /\ k.settled[1].error.name = "AttemptCountExceededError"

\* C5: the first event of every call is the invocation of the user function
\* with attempt 0: no backoff call and no wait comes before it, whatever
\* the initial timeout; a call that resolves on attempt 0 has neither in
\* its whole trace.
C5_NoWaitBeforeFirstAttempt ==
    \A c \in Calls :
        LET k == calls[c] IN
        Started(k) =>
            /\ k.trace[1] = [e |-> "invoke", attempt |-> 0]
            /\ (k.pc = "running" /\ Len(Ev(k, "invoke")) = 1) =>
                    (Ev(k, "sleep") = <<>> /\ Ev(k, "backoff") = <<>>)
            /\ (k.pc = "resolved" /\ Len(Ev(k, "invoke")) = 1) =>
                    (Ev(k, "sleep") = <<>> /\ Ev(k, "backoff") = <<>>)

C5_Witness ==
    \E c \in Calls :
        LET k == calls[c] IN
        /\ k.pc = "resolved"
        /\ k.userFn.kind = "succeedAt" /\ k.userFn.n = 0
        /\ k.timeout = 5
        /\ k.trace = <<[e |-> "invoke", attempt |-> 0]>>

\* C6: every backoff call is followed at once by the wait for the value it
\* returned; while a call waits it has made as many waits as invocations,
\* and otherwise (an attempt running, or the call ended) one less: the
\* failure that exhausts the attempts is followed by no backoff call and no
\* wait.  With maxAttempts = 1 there is one invocation and no wait.
C6_BackoffOnlyOnRetry ==
    \A c \in Calls :
        LET k == calls[c]
            inv == Len(Ev(k, "invoke"))
        IN  Started(k) =>
            /\ Len(Ev(k, "backoff")) = Len(Ev(k, "sleep"))
            /\ \A i \in 1..Len(k.trace) :
                  k.trace[i].e = "backoff" =>
                     /\ i < Len(k.trace)
                     /\ k.trace[i + 1] = [e |-> "sleep", ms |-> k.trace[i].next]
            /\ Len(Ev(k, "sleep")) = IF k.pc = "sleeping" THEN inv ELSE inv - 1
            /\ (k.maxAttempts = 1) => (inv = 1 /\ Ev(k, "sleep") = <<>>)

C6_Witness ==
    \E c \in Calls :
        LET k == calls[c] IN
        /\ k.pc = "rejected"
        /\ k.userFn.kind = "alwaysFail"
        /\ k.maxAttempts = 3
        /\ k.settled[1].error.name = "AttemptCountExceededError"
        /\ Len(Ev(k, "invoke")) = 3
        /\ Len(Ev(k, "sleep")) = 2
        /\ Len(Ev(k, "backoff")) = 2

\* C7: every invocation that has ended in a signalled failure is followed
\* at once, before any backoff call, wait or invocation, by one call of the
\* failure observer of the options, with the cause given to retry
\* (undefined when none was given) and the attempt number of that
\* invocation, and by no second one; without such an observer none is
\* called.
C7_FailureObserver ==
    \A c \in Calls :
        LET k == calls[c]
            n == Len(k.trace)
        IN  Started(k) =>
            \A i \in 1..n :
                (/\ k.trace[i].e = "invoke"
                 /\ (i < n \/ k.pc # "running")
                 /\ Signals(k.userFn, k.trace[i].attempt))
                => IF Has(k.options, "onFail")
                   THEN /\ i < n
                        /\ k.trace[i + 1]
                             = [e |-> "onFail", fn |-> k.options.onFail.name,
                                error |-> CauseOf(k.userFn, k.trace[i].attempt),
                                attempt |-> k.trace[i].attempt]
                        /\ (i + 1 < n) => k.trace[i + 2].e # "onFail"
                   ELSE Ev(k, "onFail") = <<>>

C7_Witness ==
    \E c \in Calls :
        LET k == calls[c] IN
        /\ k.pc = "rejected"
        /\ k.userFn.kind = "alwaysFail" /\ ~k.userFn.withCause
        /\ Has(k.options, "onFail")
        /\ k.settled[1].error.name = "AttemptCountExceededError"
        /\ Len(Ev(k, "onFail")) = 3
        /\ Ev(k, "onFail")[3] = [e |-> "onFail", fn |-> "options.onFail",
                                 error |-> Undefined, attempt |-> 2]

\* C8: every field not set in the options of a call takes the value the
\* defaults held when the call began: the three locals, and the observers
\* too, so that an observer installed with overrideDefaultOptions is called
\* by a call whose options set none.
C8_UnsetFieldsUseDefaults ==
    \A c \in Calls :
        LET k == calls[c]
            Used(f) == IF Has(k.options, f) THEN k.options[f]
                       ELSE k.startDefaults[f]
        IN  Started(k) =>
            /\ k.maxAttempts = Used("maxAttempts")
            /\ k.getNextTimeout = Used("getNextTimeout")
            /\ (Ev(k, "sleep") = <<>>) => k.timeout = Used("initTimeout")
            /\ (/\ ~Has(k.options, "onFail")
                /\ Has(k.startDefaults, "onFail")
                /\ Len(k.trace) > 1
                /\ Signals(k.userFn, 0))
               => /\ Ev(k, "onFail") # <<>>
                  /\ Ev(k, "onFail")[1].fn = k.startDefaults.onFail.name
            /\ (/\ ~Has(k.options, "onSuccess")
                /\ Has(k.startDefaults, "onSuccess")
                /\ k.pc = "resolved")
               => /\ Ev(k, "onSuccess") # <<>>
                  /\ Ev(k, "onSuccess")[1].fn = k.startDefaults.onSuccess.name

\* C9: after any overrides, each field of the defaults holds the value of
\* the last override that set it, or its shipped value when none did; the
\* defaults have the shipped fields and the overridden ones and no other;
\* and an override returns the defaults as they then are.
C9_OverrideMerges ==
    LET Setters(f) == {i \in 1..Len(overrides) : f \in DOMAIN overrides[i]}
        LastSetter(f) == CHOOSE i \in Setters(f) : \A j \in Setters(f) : j <= i
    IN  /\ DOMAIN DFLT_OPTIONS
              = (DOMAIN ShippedDefaults)
                \cup UNION {DOMAIN overrides[i] : i \in 1..Len(overrides)}
        /\ \A f \in DOMAIN DFLT_OPTIONS :
              DFLT_OPTIONS[f] = IF Setters(f) = {} THEN ShippedDefaults[f]
                                ELSE overrides[LastSetter(f)][f]
        /\ (overrides # <<>>) => returned = DFLT_OPTIONS

C9_Witness ==
    /\ Len(overrides) = 2
    /\ DOMAIN overrides[1] = {"maxAttempts", "onFail", "onSuccess"}
    /\ DOMAIN overrides[2] = {"initTimeout", "getNextTimeout"}
    /\ DFLT_OPTIONS.maxAttempts = 2
    /\ DFLT_OPTIONS.initTimeout = 1
    /\ returned = DFLT_OPTIONS

\* the delay of the j-th retry of a call that began with initial timeout t0
\* and backoff function g
RECURSIVE ExpectedDelay(_, _, _)
ExpectedDelay(g, t0, j) ==
    IF j = 0 THEN t0 ELSE CallBackoff(g, ExpectedDelay(g, t0, j - 1), j, fib)

\* C10: a call runs on the configuration resolved against the defaults as
\* they were when it began, whatever overrides take place while it is in
\* flight: its maxAttempts and backoff function stay the ones resolved
\* then, it is never invoked more often than that maxAttempts and is
\* exhausted after exactly that many invocations, and its waits are the
\* ones that backoff function gives from that initial timeout.  A call in
\* flight with no override since it began runs on the current defaults.
C10_DefaultsReadAtStart ==
    \A c \in Calls :
        LET k == calls[c]
            AtStart(f) == IF Has(k.options, f) THEN k.options[f]
                          ELSE k.startDefaults[f]
            waits == Ev(k, "sleep")
        IN  Started(k) =>
            /\ k.maxAttempts = AtStart("maxAttempts")
            /\ k.getNextTimeout = AtStart("getNextTimeout")
            /\ Len(Ev(k, "invoke")) <= AtStart("maxAttempts")
            /\ (k.pc = "rejected"
                    /\ k.settled[1].error.name = "AttemptCountExceededError")
                => Len(Ev(k, "invoke")) = AtStart("maxAttempts")
            /\ \A j \in 1..Len(waits) :
                  waits[j].ms = ExpectedDelay(AtStart("getNextTimeout"),
                                              AtStart("initTimeout"), j)
            /\ (InFlight(k) /\ ~k.overridden) => k.startDefaults = DFLT_OPTIONS

C10_Witness ==
    \E c \in Calls :
        LET k == calls[c] IN
        /\ k.pc = "rejected"
        /\ k.overridden
        /\ k.options = NoOptions
        /\ k.startDefaults = ShippedDefaults
        /\ DFLT_OPTIONS.maxAttempts = 2
        /\ DFLT_OPTIONS.initTimeout = 1
        /\ Len(Ev(k, "invoke")) = 10
        /\ Ev(k, "sleep")[9].ms = 25600

\* x doubled n times
RECURSIVE TimesTwo(_, _)
TimesTwo(x, n) == IF n = 0 THEN x ELSE 2 * TimesTwo(x, n - 1)

\* the waits of a call, in order
Waits(k) == [j \in 1..Len(Ev(k, "sleep")) |-> Ev(k, "sleep")[j].ms]

InitTimeoutNotGiven(k) ==
    /\ ~Has(k.options, "initTimeout")
    /\ \A i \in 1..Len(overrides) : "initTimeout" \notin DOMAIN overrides[i]

\* no getNextTimeout in the options of the call, none in any override
BackoffNotGiven(k) ==
    /\ ~Has(k.options, "getNextTimeout")
    /\ \A i \in 1..Len(overrides) : "getNextTimeout" \notin DOMAIN overrides[i]

WithMax(ctor) ==
    ctor.kind \in {"linear", "exponential", "fibonacci"} /\ Len(ctor.args) = 2
MaxOf(ctor) == ctor.args[2]

\* C13: for a linear, exponential or fibonacci function built with a
\* maxTimeout and given to a call, from any initTimeout, the waits of the
\* call never decrease, and after a wait equal to maxTimeout every wait
\* equals maxTimeout.
C13_NonDecreasingToMax ==
    \A c \in Calls :
        LET w == Waits(calls[c]) IN
        (bk.pc = "given" /\ WithMax(bk.ctor)) =>
            \A j \in 1..(Len(w) - 1) :
                /\ w[j] <= w[j + 1]
                /\ (w[j] = MaxOf(bk.ctor)) => (w[j + 1] = MaxOf(bk.ctor))

\* C14: a linear, exponential or fibonacci function built with a maxTimeout
\* returns no value above maxTimeout, for any curTimeout and any attempt
\* >= 1, and a call given such a function waits no longer than maxTimeout,
\* for any initTimeout.
C14_MaxTimeoutBounds ==
    /\ (bk.pc = "built" /\ WithMax(bk.ctor) /\ bk.last # <<>>) =>
            bk.last[1].out <= MaxOf(bk.ctor)
    /\ \A c \in Calls :
          LET w == Waits(calls[c]) IN
          (bk.pc = "given" /\ WithMax(bk.ctor)) =>
              \A j \in 1..Len(w) : w[j] <= MaxOf(bk.ctor)

\* the backoff calls a call has made, in order
BackoffCalls(k) == Ev(k, "backoff")

\* C15: a function built by linearBackoff(increment, max) or
\* exponentialBackoff(exponent, max) returns curTimeout when attempt is 1
\* and otherwise curTimeout + increment, respectively curTimeout * exponent
\* (2 when no exponent is given), or max if that is less and a max was
\* given; so for linearBackoff(100): f(100,1) = 100, f(100,2) = 200,
\* f(200,3) = 300.  The same holds of every backoff call made by
\* doWithRetry.
C15_LinearExponentialFormula ==
    LET ctor == bk.ctor
        Capped(x) == IF Len(ctor.args) = 2 /\ ctor.args[2] < x
                     THEN ctor.args[2] ELSE x
        Expected(cur, attempt) ==
            IF attempt = 1 THEN cur
            ELSE IF ctor.kind = "linear"
                 THEN Capped(cur + ctor.args[1])
                 ELSE Capped(cur * (IF ctor.args = <<>> THEN 2 ELSE ctor.args[1]))
    IN  ctor.kind \in {"linear", "exponential"} =>
        /\ (bk.pc = "built" /\ bk.last # <<>>) =>
              bk.last[1].out = Expected(bk.last[1].curTimeout, bk.last[1].attempt)
        /\ (bk.pc = "built" /\ bk.last # <<>> /\ ctor = Ctor("linear", <<100>>)) =>
              /\ (bk.last[1].curTimeout = 100 /\ bk.last[1].attempt = 1)
                    => bk.last[1].out = 100
              /\ (bk.last[1].curTimeout = 100 /\ bk.last[1].attempt = 2)
                    => bk.last[1].out = 200
              /\ (bk.last[1].curTimeout = 200 /\ bk.last[1].attempt = 3)
                    => bk.last[1].out = 300
        /\ bk.pc = "given" =>
              \A c \in Calls : \A i \in 1..Len(BackoffCalls(calls[c])) :
                  LET b == BackoffCalls(calls[c])[i] IN
                  b.next = Expected(b.curTimeout, b.attempt)

C15_Witness ==
    /\ bk.pc = "built"
    /\ bk.ctor = Ctor("linear", <<100>>)
    /\ bk.last = <<[curTimeout |-> 200, attempt |-> 3, u |-> 0, out |-> 300]>>

\* the Fibonacci numbers 0, 1, 1, 2, 3, 5, 8, 13, ...
RECURSIVE Fibo(_)
Fibo(n) == IF n <= 1 THEN n ELSE Fibo(n - 1) + Fibo(n - 2)

\* C16: the k-th call of a function built by fibonacciBackoff(factor, max)
\* returns factor * F, or max if that is less and a max was given, F being
\* the k-th of 1, 2, 3, 5, 8, 13, ... and factor 1000 when none is given,
\* whatever the arguments of the call; after k calls the closure holds the
\* pair (fibPrev, fibCurr) reached by k steps from (0, 1).
C16_FibonacciSequence ==
    LET ctor == bk.ctor
        factor == IF ctor.args = <<>> THEN 1000 ELSE ctor.args[1]
        Kth(k) == IF Len(ctor.args) = 2 /\ ctor.args[2] < factor * Fibo(k + 1)
                  THEN ctor.args[2] ELSE factor * Fibo(k + 1)
    IN  ctor.kind = "fibonacci" =>
        /\ bk.pc = "built" =>
              /\ fib[1] = <<Fibo(bk.n), Fibo(bk.n + 1)>>
              /\ (bk.n >= 1) => bk.last[1].out = Kth(bk.n)
        /\ bk.pc = "given" =>
              \A c \in Calls :
                  LET b == BackoffCalls(calls[c]) IN
                  /\ fib[1] = <<Fibo(Len(b)), Fibo(Len(b) + 1)>>
                  /\ \A i \in 1..Len(b) : b[i].next = Kth(i)

C16_Witness ==
    /\ bk.pc = "built"
    /\ bk.ctor = Ctor("fibonacci", <<>>)
    /\ bk.n = 6
    /\ bk.last = <<[curTimeout |-> 5, attempt |-> 1, u |-> 0, out |-> 13000]>>
    /\ fib[1] = <<8, 13>>

\* C17: every value returned by a function built by randomBackoff(min, max)
\* with min < max is at least min and less than max, whatever Math.random()
\* gives and whatever the arguments of the call.
C17_RandomWithinRange ==
    (/\ bk.pc = "built"
     /\ bk.ctor.kind = "random"
     /\ bk.ctor.args[1] < bk.ctor.args[2]
     /\ bk.last # <<>>)
    => /\ bk.last[1].out >= bk.ctor.args[1]
       /\ bk.last[1].out < bk.ctor.args[2]

C17_Witness ==
    /\ bk.pc = "built"
    /\ bk.ctor = Ctor("random", <<1000, 3000>>)
    /\ bk.n = 2
    /\ bk.last = <<[curTimeout |-> 200, attempt |-> 2, u |-> RandRes - 1,
                    out |-> 1000 + (2000 * (RandRes - 1)) \div RandRes]>>

\* C18: randomBackoff(min, max) with max <= min (max = min included) and
\* upwardDecayBackoff(max, rate) with rate <= 1 (rate = 1 included; rate 2
\* when none is given) throw a RangeError when they are called: no function
\* is returned, so none is ever called and no doWithRetry call is made with
\* it.
C18_ValidationAtConstruction ==
    LET ctor == bk.ctor
        refused ==
            \/ ctor.kind = "random" /\ ctor.args[2] <= ctor.args[1]
            \/ ctor.kind = "upwardDecay" /\ Len(ctor.args) = 2 /\ ctor.args[2] <= 1
    IN  /\ refused =>
              /\ bk.pc = "failed"
              /\ bk.built.t = "throw"
              /\ bk.built.error.name = "RangeError"
        /\ bk.pc = "failed" =>
              /\ bk.n = 0
              /\ bk.last = <<>>
              /\ \A c \in Calls : ~Started(calls[c])

C18_Witness ==
    /\ bk.pc = "failed"
    /\ bk.ctor = Ctor("random", <<5, 5>>)
    /\ bk.built.error
          = [t |-> "Error", name |-> "RangeError",
             message |-> <<"minTimeout must be less than maxTimeout">>,
             cause |-> Undefined]
    /\ \A c \in Calls : ~Started(calls[c])

\* rate multiplied a times
RECURSIVE RateTo(_, _)
RateTo(rate, a) == IF a = 0 THEN 1 ELSE rate * RateTo(rate, a - 1)

\* v is the fraction num/den (den > 0) rounded to the nearest integer, a
\* half going up
IsRounded(v, num, den) ==
    /\ 2 * num - den < 2 * v * den
    /\ 2 * v * den <= 2 * num + den

\* C19: a function built by upwardDecayBackoff(maxTimeout, rate), rate > 1
\* (2 when none is given), returns maxTimeout * (1 - 1/rate^attempt)
\* rounded to the nearest integer, whatever curTimeout is passed, and never
\* more than maxTimeout; the waits of a call given such a function are
\* these values for attempts 1, 2, 3, ..., whatever its initTimeout, and
\* never decrease.  For maxTimeout 1000 and rate 2 the values are 500, 750,
\* 875, 938, 969, 984.
C19_UpwardDecay ==
    LET ctor == bk.ctor
        max == ctor.args[1]
        rate == IF Len(ctor.args) = 2 THEN ctor.args[2] ELSE 2
        Is(v, a) == IsRounded(v, max * (RateTo(rate, a) - 1), RateTo(rate, a))
        example == <<500, 750, 875, 938, 969, 984>>
    IN  (ctor.kind = "upwardDecay" /\ rate > 1) =>
        /\ (bk.pc = "built" /\ bk.last # <<>>) =>
              /\ Is(bk.last[1].out, bk.last[1].attempt)
              /\ bk.last[1].out <= max
              /\ (max = 1000 /\ rate = 2 /\ bk.last[1].attempt <= 6) =>
                    bk.last[1].out = example[bk.last[1].attempt]
        /\ bk.pc = "given" =>
              \A c \in Calls :
                  LET w == Waits(calls[c]) IN
                  \A j \in 1..Len(w) :
                      /\ Is(w[j], j)
                      /\ w[j] <= max
                      /\ (j < Len(w)) => w[j] <= w[j + 1]
                      /\ (max = 1000 /\ rate = 2 /\ j <= 6) => w[j] = example[j]

C19_Witness ==
    /\ bk.pc = "given"
    /\ bk.ctor = Ctor("upwardDecay", <<1000>>)
    /\ \E c \in Calls :
          /\ calls[c].pc = "rejected"
          /\ calls[c].options.initTimeout = 5
          /\ Waits(calls[c]) = <<500, 750, 875, 938, 969, 984>>

\* C20: a function built by constantBackoff(t) returns t on every call,
\* t = 0 included, whatever its arguments, and one built by
\* constantBackoff() returns its curTimeout argument; a call given
\* constantBackoff() waits its initTimeout before every retry, and one
\* given constantBackoff(t) waits t.
C20_ConstantBackoff ==
    LET ctor == bk.ctor IN
    ctor.kind = "constant" =>
        /\ (bk.pc = "built" /\ bk.last # <<>>) =>
              bk.last[1].out = IF ctor.args = <<>> THEN bk.last[1].curTimeout
                               ELSE ctor.args[1]
        /\ bk.pc = "given" =>
              \A c \in Calls :
                  LET w == Waits(calls[c]) IN
                  \A j \in 1..Len(w) :
                      w[j] = IF ctor.args = <<>>
                             THEN calls[c].options.initTimeout
                             ELSE ctor.args[1]

C20_Witness ==
    /\ bk.pc = "given"
    /\ bk.ctor = Ctor("constant", <<>>)
    /\ \E c \in Calls :
          /\ calls[c].pc = "rejected"
          /\ calls[c].options.initTimeout = 100
          /\ Waits(calls[c]) = <<100, 100, 100, 100, 100, 100>>

---------------------------------------------------------------------------
\* the positions of the events of one kind in the trace of a call
At(k, e) == {i \in 1..Len(k.trace) : k.trace[i].e = e}

\* the initial timeout a call began with
InitTimeoutOf(k) == Resolve(k.options, k.startDefaults, "initTimeout")

\* C21: the k-th granted retry of a call (k >= 1) is one step of the loop:
\* the attempt number goes up by exactly one to k, the backoff function is
\* called exactly once, with (d_(k-1), k) where d_0 is the initial timeout
\* and d_(k-1) the delay of the retry before, the call waits exactly the
\* delay d_k the function returned, and the user function is then invoked
\* with attempt k.  Between two invocations there is exactly one backoff
\* call and one wait.
C21_RetryStep ==
    \A c \in Calls :
        LET k == calls[c]
            tr == k.trace
            backoffs == Ev(k, "backoff")
            nth(i) == Cardinality({j \in At(k, "backoff") : j <= i})
        IN  Started(k) =>
            /\ \A i \in At(k, "backoff") :
                  /\ tr[i].attempt = nth(i)
                  /\ tr[i].curTimeout = IF nth(i) = 1 THEN InitTimeoutOf(k)
                                        ELSE backoffs[nth(i) - 1].next
                  /\ i > 1 /\ tr[i - 1].e # "sleep"
                  /\ i + 1 <= Len(tr)
                  /\ tr[i + 1] = [e |-> "sleep", ms |-> tr[i].next]
                  /\ i + 2 <= Len(tr)
                        => tr[i + 2] = [e |-> "invoke", attempt |-> nth(i)]
                  /\ i + 1 = Len(tr)
                        => k.pc = "sleeping" /\ k.attempt = nth(i)
                                             /\ k.timeout = tr[i].next
            /\ \A i \in At(k, "invoke") :
                  IF tr[i].attempt = FirstAttempt
                  THEN i = 1
                  ELSE /\ i > 2
                       /\ tr[i - 1].e = "sleep"
                       /\ tr[i - 2].e = "backoff"
                       /\ tr[i - 2].attempt = tr[i].attempt
            /\ \A i \in At(k, "sleep") : i > 1 /\ tr[i - 1].e = "backoff"
            /\ \A j \in 1..Len(AttemptsSeen(k)) : AttemptsSeen(k)[j] = j - 1

\* a call on its third invocation, whose second backoff call was given the
\* first delay and not the initial timeout
C21_Witness ==
    \E c \in Calls :
        LET k == calls[c] IN
        /\ k.pc = "running"
        /\ AttemptsSeen(k) = <<0, 1, 2>>
        /\ Len(Ev(k, "backoff")) = 2
        /\ Ev(k, "backoff")[1].next # InitTimeoutOf(k)
        /\ Ev(k, "backoff")[2].curTimeout = Ev(k, "backoff")[1].next
        /\ Ev(k, "sleep")[2].ms = Ev(k, "backoff")[2].next

---------------------------------------------------------------------------
\* the observer of the options raises when it is called
Raises(k, f) == Has(k.options, f) /\ k.options[f].raises

\* the rejection with what the observer f raised
ObserverRejection(f) ==
    [t |-> "reject",
     error |-> [t |-> "Error", name |-> "Error",
                message |-> <<"raised by observer", f>>,
                cause |-> Undefined]]

C27_FailureObserverRaises ==
    \A c \in Calls :
        LET k == calls[c]
            tr == k.trace
        IN  \A i \in At(k, "onFail") :
                (Raises(k, "onFail") /\ Signals(k.userFn, tr[i].attempt)
                        /\ tr[i - 1].e = "invoke") =>
                /\ tr[i].error = CauseOf(k.userFn, tr[i].attempt)
                /\ Len(tr) = i
                /\ k.pc = "rejected"
                /\ k.settled = <<ObserverRejection("options.onFail")>>
                /\ k.attempt = tr[i - 1].attempt
                /\ At(k, "backoff") = {} /\ At(k, "sleep") = {}
                /\ k.settled[1].error.name # "AttemptCountExceededError"

\* a call with three attempts allowed whose first attempt signalled a
\* failure and whose failure observer raised: it is rejected after that
\* one invocation
C27_Witness ==
    \E c \in Calls :
        LET k == calls[c] IN
        /\ k.maxAttempts = 3
        /\ Raises(k, "onFail")
        /\ Signals(k.userFn, 0)
        /\ AttemptsSeen(k) = <<0>>
        /\ Len(k.trace) = 2 /\ k.trace[2].e = "onFail"
        /\ k.pc = "rejected"
        /\ k.settled = <<ObserverRejection("options.onFail")>>

---------------------------------------------------------------------------
\* C25: an attempt on which the user function calls retry is a failure,
\* whatever the user function does afterwards: once the invocation has
\* ended, the failure observer (when the options have one) has been called
\* with the cause given to retry and that attempt number, the success
\* observer has not been called for that attempt, and the call has not
\* resolved with a value returned by that attempt.
C25_SignalledFailureIsFailure ==
    \A c \in Calls :
        LET k == calls[c]
            tr == k.trace
        IN  \A i \in At(k, "invoke") :
                (CallsRetry(k.userFn, tr[i].attempt)
                        /\ (i < Len(tr) \/ Finished(k))) =>
                /\ Has(k.options, "onFail") =>
                      /\ i < Len(tr)
                      /\ tr[i + 1].e = "onFail"
                      /\ tr[i + 1].error = CauseOf(k.userFn, tr[i].attempt)
                      /\ tr[i + 1].attempt = tr[i].attempt
                /\ \A j \in At(k, "onSuccess") : tr[j].attempt # tr[i].attempt
                /\ ~(k.pc = "resolved" /\ k.attempt = tr[i].attempt)

---------------------------------------------------------------------------
\* the number of backoff calls the calls in S have made so far on the
\* fibonacci function i
RECURSIVE CallsOn(_, _)
CallsOn(i, S) ==
    IF S = {} THEN 0
    ELSE LET c == CHOOSE x \in S : TRUE
             own == IF Started(calls[c])
                       /\ calls[c].getNextTimeout = FibonacciInstance(i)
                    THEN Len(Ev(calls[c], "backoff")) ELSE 0
         IN  own + CallsOn(i, S \ {c})

\* C22: a fibonacci function keeps its position in the sequence across the
\* calls it is given to.  Whether the two calls that use one function run
\* one after the other or interleaved, every backoff call of either of them
\* returns the next term of the one sequence factor * 1, 2, 3, 5, 8, ...:
\* the n-th call on the function, counted over both calls, returns
\* factor * Fibo(n + 1), so the delays of the two calls together are the
\* first terms of the sequence, each taken once, and only the first call
\* on the function gets factor * 1.  The closure of a function is advanced
\* by the calls on that function only: functions built separately give
\* independent sequences.
C22_SharedFibonacci ==
    /\ [](\A i \in Instances :
            LET f == FibonacciInstance(i)
                users == {c \in Slots : Started(calls[c])
                                        /\ calls[c].getNextTimeout = f}
                n == CallsOn(i, Slots)
                taken == {<<c, j>> \in users \X (1..n) :
                              j <= Len(Waits(calls[c]))}
            IN  /\ fib[i] = <<Fibo(n), Fibo(n + 1)>>
                /\ {Waits(calls[x[1]])[x[2]] : x \in taken}
                      = {f.p * Fibo(m + 1) : m \in 1..n}
                /\ \A x, y \in taken :
                      x # y => Waits(calls[x[1]])[x[2]] # Waits(calls[y[1]])[y[2]]
                /\ \A c \in users : \A j \in 2..Len(Waits(calls[c])) :
                      Waits(calls[c])[j - 1] < Waits(calls[c])[j])
    /\ [][\A c \in Slots : \A i \in Instances :
            (/\ calls[c].getNextTimeout = FibonacciInstance(i)
             /\ Len(Ev(calls'[c], "backoff")) = Len(Ev(calls[c], "backoff")) + 1)
            => LET b == Ev(calls'[c], "backoff") IN
               /\ b[Len(b)].next
                    = FibonacciInstance(i).p * Fibo(CallsOn(i, Slots) + 2)
               /\ \A j \in Instances \ {i} : fib'[j] = fib[j]]_vars

\* two calls in flight on one fibonacci function, interleaved: the first
\* has waited factor * 1 and factor * 3, the second factor * 2
C22_Witness ==
    /\ calls[1].getNextTimeout = FibonacciInstance(1)
    /\ calls[2].getNextTimeout = FibonacciInstance(1)
    /\ Waits(calls[1]) = <<DefaultFactor, 3 * DefaultFactor>>
    /\ Waits(calls[2]) = <<2 * DefaultFactor>>
    /\ InFlight(calls[1]) /\ InFlight(calls[2])

---------------------------------------------------------------------------
\* What a call with this user function and this maxAttempts does when it
\* is the only call of the program: the attempt it ends on is the first
\* one on which the user function does not signal a failure, or the last
\* one the loop grants
LastAttemptAlone(fn, maxAttempts) ==
    LET last == IF maxAttempts < 1 THEN 0 ELSE maxAttempts - 1
        ends == {a \in 0..last : ~Signals(fn, a)}
    IN  IF ends = {} THEN last
        ELSE CHOOSE a \in ends : \A b \in ends : a <= b

OutcomeAlone(fn, maxAttempts) ==
    LET a == LastAttemptAlone(fn, maxAttempts)
        res == UserFnResult(fn, a)
    IN  IF res.t = "return" THEN [t |-> "resolve", value |-> res.value]
        ELSE IF Signals(fn, a) THEN ExceededWith(CauseOf(fn, a))
        ELSE [t |-> "reject", error |-> res.error]

\* the j-th delay of a call alone, with the shipped initial timeout: the
\* default strategy doubles from the second retry on, linearBackoff(1) adds
\* one
DelayAlone(k, j) ==
    IF Has(k.options, "getNextTimeout")
    THEN ShippedDefaults.initTimeout + (j - 1)
    ELSE TimesTwo(ShippedDefaults.initTimeout, j - 1)

Stateless(k) == Started(k) /\ k.getNextTimeout.kind # "fibonacci"

\* C23: two calls that run at the same time with stateless backoff
\* functions, with no override of the defaults, do not affect each other.
\* In every interleaving of their attempts and waits each call invokes its
\* own user function with 0, 1, 2, ..., waits the delays it waits when it
\* runs alone and ends as it ends alone, after as many invocations; and no
\* call writes the defaults.
C23_ConcurrentCallsIndependent ==
    /\ DFLT_OPTIONS = ShippedDefaults
    /\ \A c \in Slots :
          LET k == calls[c]
              n == Len(AttemptsSeen(k))
              last == LastAttemptAlone(k.userFn, k.options.maxAttempts)
          IN  Stateless(k) =>
              /\ k.startDefaults = ShippedDefaults
              /\ \A j \in 1..n : AttemptsSeen(k)[j] = j - 1
              /\ n <= last + 1
              /\ Len(Waits(k)) = IF k.pc = "sleeping" THEN n ELSE n - 1
              /\ \A j \in 1..Len(Waits(k)) : Waits(k)[j] = DelayAlone(k, j)
              /\ Finished(k) =>
                    /\ n = last + 1
                    /\ k.settled
                         = <<OutcomeAlone(k.userFn, k.options.maxAttempts)>>

\* both calls in flight with stateless functions, interleaved: the first on
\* its third attempt after waits of 100 and 200, the second waiting for
\* its second attempt
C23_Witness ==
    /\ Stateless(calls[1]) /\ Stateless(calls[2])
    /\ calls[1].pc = "running" /\ calls[2].pc = "sleeping"
    /\ AttemptsSeen(calls[1]) = <<0, 1, 2>>
    /\ Waits(calls[1]) = <<100, 200>>
    /\ AttemptsSeen(calls[2]) = <<0>>
    /\ Waits(calls[2]) = <<100>>

---------------------------------------------------------------------------
\* C28: a call with maxAttempts <= 0 does what a call with maxAttempts = 1
\* does.  The number is taken as given (it is not replaced by the default),
\* the user function is invoked exactly once, with attempt 0, and never
\* zero times; a value it returns resolves the call, a signalled failure
\* rejects it with AttemptCountExceededError carrying the cause and an
\* error it throws rejects it with that error; no backoff is computed and
\* nothing is waited.
C28_NonPositiveMaxAttempts ==
    \A c \in Slots :
        LET k == calls[c]
            res == UserFnResult(k.userFn, 0)
        IN  (Started(k) /\ k.options.maxAttempts <= 0) =>
            /\ k.maxAttempts = k.options.maxAttempts
            /\ AttemptsSeen(k) = <<0>>
            /\ k.trace = <<[e |-> "invoke", attempt |-> 0]>>
            /\ k.pc # "sleeping"
            /\ At(k, "backoff") = {} /\ At(k, "sleep") = {}
            /\ Finished(k) =>
                  k.settled =
                     <<IF res.t = "return"
                       THEN [t |-> "resolve", value |-> res.value]
                       ELSE IF Signals(k.userFn, 0)
                       THEN ExceededWith(CauseOf(k.userFn, 0))
                       ELSE [t |-> "reject", error |-> res.error]>>

\* a call with maxAttempts = -1 whose user function signalled a failure on
\* its only invocation: it is rejected with AttemptCountExceededError and
\* has never waited
C28_Witness ==
    \E c \in Slots :
        LET k == calls[c] IN
        /\ Started(k)
        /\ k.maxAttempts = -1
        /\ Signals(k.userFn, 0)
        /\ AttemptsSeen(k) = <<0>>
        /\ Waits(k) = <<>>
        /\ k.settled = <<ExceededWith(CauseOf(k.userFn, 0))>>

---------------------------------------------------------------------------
\* C24: when every invocation of the user function completes and every
\* wait elapses, a call with maxAttempts M >= 1 ends: from every state in
\* which it is in flight it reaches a terminal state, which is a success,
\* the error the user function threw, or AttemptCountExceededError.  At no
\* time has the user function been invoked more than M times or has the
\* call waited more than M - 1 times, so no call retries forever.
C24_Terminates ==
    /\ [](\A c \in Slots :
            LET k == calls[c] IN
            (Started(k) /\ k.maxAttempts >= 1) =>
                /\ Len(AttemptsSeen(k)) <= k.maxAttempts
                /\ Len(Waits(k)) <= k.maxAttempts - 1
                /\ Finished(k) =>
                      /\ Len(k.settled) = 1
                      /\ \/ k.settled[1].t = "resolve"
                         \/ k.settled[1].error = TestError
                         \/ /\ k.settled[1].error.name = "AttemptCountExceededError"
                            /\ Len(AttemptsSeen(k)) = k.maxAttempts)
    /\ \A c \in Slots :
            (InFlight(calls[c]) /\ calls[c].maxAttempts >= 1)
                ~> Finished(calls[c])

\* a call with maxAttempts = 3 that ended by exhaustion, after three
\* invocations and two waits
C24_Witness ==
    \E c \in Slots :
        LET k == calls[c] IN
        /\ k.maxAttempts = 3
        /\ k.pc = "rejected"
        /\ k.settled[1].error.name = "AttemptCountExceededError"
        /\ Len(AttemptsSeen(k)) = 3
        /\ Len(Waits(k)) = 2

====
